---- MODULE Spec2Model ----
(***************************************************************************)
(* Availability / booking orchestration of the VAPI webhook service.       *)
(*                                                                         *)
(* Two implementations live in the repository and both are modelled:       *)
(*   "svc"  vapi-webhook-service/calendar-service.js                       *)
(*          (checkAvailability, bookMeeting, getValidAccessToken, ...)     *)
(*   "api"  api/vapi/calendar.js, the self-contained serverless function   *)
(*          (handleCheckAvailability, handleBookMeeting, ...)              *)
(*                                                                         *)
(* Every await on an external collaborator (integration store, token       *)
(* endpoint, calendar provider) is one step of a request, so concurrent    *)
(* requests interleave exactly at those points.  Instants are epoch        *)
(* milliseconds as in the JavaScript Date arithmetic of the source.        *)
(***************************************************************************)
EXTENDS Integers, Sequences, FiniteSets, TLC

VARIABLES
    now,        \* the wall clock read by new Date() / Date.now()
    store,      \* the user_integrations record of the one user
    calendar,   \* the provider's primary calendar: sequence of provider events
    issued,     \* number of access tokens the token endpoint has issued
    pc,         \* per request: the await it is suspended at
    args,       \* per request: implementation, operation, proposed slot
    loc,        \* per request: local variables of the running functions
    out,        \* per request: what the operation returned or threw
    calls,      \* per request: external calls issued so far
    body,       \* per request: the webhook payload it was delivered with
    reply,      \* per request: the HTTP response sent by the handler
    parsed,     \* a call of parseDateTime: its arguments and what it returned
    mongo       \* the module-level client cache and the callers of getMongoDb

vars == <<now, store, calendar, issued, pc, args, loc, out, calls, body, reply,
          parsed, mongo>>

----------------------------------------------------------------------------
(* Bounds of the model *)

MaxTicks == 2        \* how many times the clock advances
MaxEvents == 2       \* events on the calendar before the first request

----------------------------------------------------------------------------
(* Program constants *)

MsPerMinute == 60 * 1000
OneHour == 60 * 60 * 1000
FiveMinutes == 5 * 60 * 1000
DefaultDuration == 30

(* JavaScript values that have no integer counterpart *)
Undefined == 0       \* a missing token / id (falsy)
NaN == -1            \* Invalid Date, produced by arithmetic on undefined

Requests == {"r1", "r2"}

HHMM(h, m) == (h * 60 + m) * MsPerMinute


(* Inputs of the model *)

Now0 == HHMM(8, 0)
Starts == {HHMM(10, 30), HHMM(11, 0)}
Durations == {30, 60}
Lifetimes == {3600, 120}
StoredToken == 1
RefreshToken == 9
ErrorTexts == {<<"quota", "exceeded">>, <<"calendar", "not", "connected">>}
(* error bodies: <<is JSON, text>> *)
ErrorBodies == {<<TRUE, t>> : t \in ErrorTexts} \cup {<<FALSE, <<"Bad", "Gateway">> >>}

(* Events the provider may already hold.  summary "" is an omitted title. *)
InitEvents ==
    { [id |-> 1, summary |-> "Standup", start |-> HHMM(10, 0), end |-> HHMM(11, 0), dateTime |-> TRUE],
      [id |-> 2, summary |-> "",        start |-> HHMM(11, 0), end |-> HHMM(11, 30), dateTime |-> TRUE],
      [id |-> 3, summary |-> "Offsite", start |-> HHMM(7, 0),  end |-> HHMM(8, 0),  dateTime |-> FALSE] }

RECURSIVE SeqsNoDup(_, _)
SeqsNoDup(S, n) ==
    IF n = 0 THEN {<<>>}
    ELSE {<<>>} \cup { <<e>> \o t : e \in S, t \in SeqsNoDup(S, n - 1) }

InitCalendars ==
    { c \in SeqsNoDup(InitEvents, MaxEvents) :
        \A i, j \in 1..Len(c) : i # j => c[i] # c[j] }

Integration(present, at, rt, exp) ==
    [present |-> present, accessToken |-> at, refreshToken |-> rt,
     expiresAt |-> exp, updatedAt |-> Now0 - OneHour]

NoIntegration == Integration(FALSE, Undefined, Undefined, NaN)

InitStores ==
    {NoIntegration, Integration(TRUE, Undefined, RefreshToken, Now0 + OneHour)}
    \cup { Integration(TRUE, StoredToken, rt, Now0 + d) :
             rt \in {Undefined, RefreshToken},
             d \in {0 - MsPerMinute, FiveMinutes, FiveMinutes + MsPerMinute, OneHour} }

----------------------------------------------------------------------------
(* Error messages, as sequences of words so that String.includes is a     *)
(* search for a contiguous run of words.                                   *)

NotConnectedMsg ==
    <<"Google", "Calendar", "not", "connected", ".", "Please", "connect",
      "your", "calendar", "in", "Integrations", ".">>
NoRefreshTokenMsg ==
    <<"No", "refresh", "token", "available", ".", "Please", "reconnect",
      "your", "calendar", ".">>
TokenRefreshFailedMsg(text) == <<"Token", "refresh", "failed", ":">> \o text
FetchEventsFailedMsg(text) ==
    <<"Failed", "to", "fetch", "Google", "Calendar", "events", ":">> \o text
CreateEventFailedMsg(text) ==
    <<"Failed", "to", "create", "Google", "Calendar", "event", ":">> \o text
JsonSyntaxErrorMsg == <<"Unexpected", "token">>
TypeErrorMsg == <<"Cannot", "read", "properties", "of", "undefined">>

Includes(msg, needle) ==
    \E i \in 1..(Len(msg) - Len(needle) + 1) :
        SubSeq(msg, i, i + Len(needle) - 1) = needle

RECURSIVE Join(_)
Join(titles) ==
    IF Len(titles) = 0 THEN <<>>
    ELSE IF Len(titles) = 1 THEN <<titles[1]>>
    ELSE <<titles[1], ",">> \o Join(Tail(titles))

Titles(events) == [i \in 1..Len(events) |-> events[i].title]

SlotNotAvailableMsg(conflicts) ==
    <<"Time", "slot", "not", "available", ".", "Conflicts", "with", ":">>
        \o Join(Titles(conflicts))

----------------------------------------------------------------------------
(* The external collaborators: token endpoint and calendar provider.       *)

(* POST https://oauth2.googleapis.com/token: either a token with a        *)
(* lifetime, a success without the fields, an error payload, or a body     *)
(* that is not JSON.  Without a refresh token the endpoint never issues.   *)
TokenResponses(refreshToken, fresh) ==
    LET refused ==
            { [ok |-> FALSE, json |-> e[1], access_token |-> Undefined,
               expires_in |-> NaN, text |-> e[2]] : e \in ErrorBodies }
        granted ==
            { [ok |-> TRUE, json |-> TRUE, access_token |-> fresh,
               expires_in |-> l, text |-> <<>>] : l \in Lifetimes }
        malformed ==
            { [ok |-> TRUE, json |-> j, access_token |-> Undefined,
               expires_in |-> NaN, text |-> <<>>] : j \in BOOLEAN }
    IN  IF refreshToken = Undefined THEN refused
        ELSE refused \cup granted \cup malformed

(* events.list keeps the events that intersect (timeMin, timeMax) *)
InWindow(ev, timeMin, timeMax) == ev.end > timeMin /\ ev.start < timeMax

RECURSIVE InsertByStart(_, _)
InsertByStart(ev, sorted) ==
    IF sorted = <<>> THEN <<ev>>
    ELSE IF ev.start < Head(sorted).start THEN <<ev>> \o sorted
    ELSE <<Head(sorted)>> \o InsertByStart(ev, Tail(sorted))

RECURSIVE SortByStart(_)
SortByStart(evs) ==
    IF evs = <<>> THEN <<>>
    ELSE InsertByStart(evs[Len(evs)], SortByStart(SubSeq(evs, 1, Len(evs) - 1)))

ListItems(cal, timeMin, timeMax, ordered) ==
    LET hit == SelectSeq(cal, LAMBDA ev : InWindow(ev, timeMin, timeMax))
    IN  IF ordered THEN SortByStart(hit) ELSE hit

(* GET .../calendars/primary/events *)
ListResponses(token, items) ==
    LET refused ==
            { [ok |-> FALSE, json |-> e[1], hasItems |-> FALSE, badItem |-> FALSE,
               items |-> <<>>, text |-> e[2]] : e \in ErrorBodies }
        listed ==
            { [ok |-> TRUE, json |-> TRUE, hasItems |-> TRUE, badItem |-> b,
               items |-> items, text |-> <<>>] :
                 b \in IF items = <<>> THEN {FALSE} ELSE BOOLEAN }
        malformed ==
            { [ok |-> TRUE, json |-> j, hasItems |-> FALSE, badItem |-> FALSE,
               items |-> <<>>, text |-> <<>>] : j \in BOOLEAN }
    IN  IF token = Undefined THEN refused
        ELSE refused \cup listed \cup malformed

(* POST .../calendars/primary/events *)
CreateResponses(token) ==
    LET refused == { [ok |-> FALSE, json |-> e[1], text |-> e[2]] :
                        e \in ErrorBodies }
    IN  IF token = Undefined THEN refused
        ELSE refused \cup {[ok |-> TRUE, json |-> TRUE, text |-> <<>>]}

NewEventId(cal) == 100 + Len(cal)

ProviderEvent(cal, title, startTime, endTime) ==
    [id |-> NewEventId(cal), summary |-> title, start |-> startTime,
     end |-> endTime, dateTime |-> TRUE]

----------------------------------------------------------------------------
(* Pure helpers of calendar-service.js *)

(* new Date(a.getTime() + x): arithmetic on undefined gives Invalid Date *)
AddMs(t, ms) == IF t = NaN \/ ms = NaN THEN NaN ELSE t + ms

(* mutant: the lifetime in seconds is added as if it were milliseconds *)
TimesForgotten(a, b) == a

Times(a, b) == IF a = NaN \/ b = NaN THEN NaN ELSE a * b

(* Date < Date compares the numbers; any comparison with NaN is false *)
DateLess(a, b) == a # NaN /\ b # NaN /\ a < b

(* getUserIntegration: the projection of the stored document *)
getUserIntegrationResult(doc) ==
    [present |-> doc.present, accessToken |-> doc.accessToken,
     refreshToken |-> doc.refreshToken, expiresAt |-> doc.expiresAt,
     updatedAt |-> doc.updatedAt]

(* mutant: a missing record is not treated as not connected *)
IsNotConnectedTokenOnly(integration) ==
    integration.present /\ integration.accessToken = Undefined

(* getValidAccessToken, line 110 *)
IsNotConnected(integration) ==
    ~integration.present \/ integration.accessToken = Undefined

(* mutant: every token is refreshed *)
IsExpiringAlways(integration, t) == TRUE

(* getValidAccessToken, lines 115-118 *)
IsExpiring(integration, t) ==
    DateLess(integration.expiresAt, AddMs(t, FiveMinutes))

(* getGoogleCalendarEvents, lines 154-160 *)
ToCalendarEvent(item) ==
    [id |-> item.id,
     title |-> IF item.summary = "" THEN "Busy" ELSE item.summary,
     start |-> item.start, end |-> item.end, allDay |-> ~item.dateTime]

MapEvents(items) == [i \in 1..Len(items) |-> ToCalendarEvent(items[i])]

(* mutant: closed intervals, touching boundaries conflict *)
HasConflictInclusive(event, proposedTime, proposedEnd) ==
    event.start <= proposedEnd /\ event.end >= proposedTime

(* checkAvailability, line 199 *)
HasConflict(event, proposedTime, proposedEnd) ==
    DateLess(event.start, proposedEnd) /\ DateLess(proposedTime, event.end)

(* mutant: conflicts collected in reverse order *)
ConflictsReversed(events, proposedTime, proposedEnd) ==
    LET c == SelectSeq(events, LAMBDA e : HasConflict(e, proposedTime, proposedEnd))
    IN  [i \in 1..Len(c) |-> c[Len(c) + 1 - i]]

(* checkAvailability, lines 198-208 *)
Conflicts(events, proposedTime, proposedEnd) ==
    SelectSeq(events, LAMBDA e : HasConflict(e, proposedTime, proposedEnd))

(* mutant: conflicts are ignored *)
AvailabilityResultAlwaysFree(conflicts) ==
    [available |-> TRUE, conflicts |-> <<>>]

(* checkAvailability, lines 212-220 *)
AvailabilityResult(conflicts) ==
    IF Len(conflicts) > 0
    THEN [available |-> FALSE, conflicts |-> conflicts]
    ELSE [available |-> TRUE, conflicts |-> <<>>]

(* checkAvailability, line 224 *)
IsFailOpenError(message) == Includes(message, <<"not", "connected">>)

(* bookMeeting, line 305: meetingDetails.durationMinutes || 30 *)
BookingDuration(d) == IF d = 0 THEN DefaultDuration ELSE d

(* mutant: the early return of bookMeeting is never taken *)
SlotTakenNever(availability) == FALSE

(* bookMeeting, line 318 *)
SlotTaken(availability) == ~availability.available

----------------------------------------------------------------------------
(* Webhook payloads.  A date string is its separator and its three         *)
(* numbers, a time string its two numbers and its am/pm marker.            *)

DateStr(sep, a, b, c) == [sep |-> sep, a |-> a, b |-> b, c |-> c]
NoDateStr == DateStr("missing", 0, 0, 0)
TimeStr(h, m, marker) == [given |-> TRUE, h |-> h, m |-> m, marker |-> marker]
NoTimeStr == [given |-> FALSE, h |-> 0, m |-> 0, marker |-> ""]
Minutes(n) == [given |-> TRUE, minutes |-> n]
NoMinutes == [given |-> FALSE, minutes |-> 0]

(* the parameter object of a tool call; the two handler families read      *)
(* different keys (time / duration / leadName / leadEmail against          *)
(* startTime / endTime / attendeeName / attendeeEmail)                     *)
NoParams ==
    [date |-> NoDateStr, time |-> NoTimeStr, startTime |-> NoTimeStr,
     endTime |-> NoTimeStr, duration |-> NoMinutes, timezone |-> "UTC",
     lead |-> FALSE, attendee |-> FALSE]

(* one element of toolCallList / toolCalls:                                *)
(*   shape "function": {id, function: {name, arguments}}                   *)
(*   shape "flat":     {id, name, arguments}                               *)
(* encoding: arguments is a JSON "string", an "object", a string that is   *)
(* not JSON ("badjson"), or absent ("none")                                *)
ToolCall(id, shape, name, encoding, parameters) ==
    [id |-> id, shape |-> shape, name |-> name, encoding |-> encoding,
     parameters |-> parameters]

NoList == [present |-> FALSE, items |-> <<>>]
List(items) == [present |-> TRUE, items |-> items]
NoFunctionCall == [present |-> FALSE, name |-> "", parameters |-> NoParams]
FunctionCall(name, parameters) ==
    [present |-> TRUE, name |-> name, parameters |-> parameters]

(* via: which handler the delivery reaches                                 *)
(*   "wh"  vapi-webhook-service/webhook-handler.js                         *)
(*   "tl"  the toolCallList variant of that handler                        *)
(*   "api" api/vapi/calendar.js                                            *)
NoBody ==
    [via |-> "none", toolCallList |-> NoList, toolCalls |-> NoList,
     functionCall |-> NoFunctionCall,
     callMetadataUser |-> Undefined, overridesUser |-> Undefined,
     messageCallMetadataUser |-> Undefined]

NoReply ==
    [sent |-> 0, status |-> 0, kind |-> "", text |-> <<>>,
     toolCallId |-> Undefined, hasSuccess |-> FALSE, success |-> FALSE]

(* no call of parseDateTime is being looked at *)
NoParsed ==
    [phase |-> "idle", via |-> "wh", dateStr |-> NoDateStr, timeStr |-> NoTimeStr,
     timezone |-> "UTC",
     result |-> [thrown |-> FALSE,
                 components |-> [year |-> 0, month |-> 0, day |-> 0,
                                 hours |-> 0, minutes |-> 0],
                 date |-> 0]]

(* callers of getMongoDb / getMongoClient within one process *)
Callers == {"c1", "c2", "c3"}

NoClient == 0

IdleCaller == [at |-> "idle", client |-> NoClient, handle |-> NoClient, early |-> FALSE]

(* cachedClient and cachedDb are null, nobody is calling *)
IdleMongo ==
    [impl |-> "svc", cachedClient |-> NoClient, cachedDb |-> NoClient,
     created |-> 0, connected |-> {}, caller |-> [c \in Callers |-> IdleCaller]]

----------------------------------------------------------------------------
(* Date and time resolution of the handlers *)

Components(y, mo, d, h, mi) ==
    [year |-> y, month |-> mo, day |-> d, hours |-> h, minutes |-> mi]

(* days from 1970-01-01 of a proleptic Gregorian date *)
DaysFromCivil(y, m, d) ==
    LET yy == IF m <= 2 THEN y - 1 ELSE y
        era == yy \div 400
        yoe == yy - era * 400
        mp == IF m > 2 THEN m - 3 ELSE m + 9
        doy == ((153 * mp + 2) \div 5) + d - 1
        doe == yoe * 365 + (yoe \div 4) - (yoe \div 100) + doy
    IN  era * 146097 + doe - 719468

(* instants are counted from 2026-01-20T00:00Z *)
EpochDay == DaysFromCivil(2026, 1, 20)

(* new Date(Date.UTC(year, month - 1, day, hours, minutes, 0, 0)) *)
DateUTC(c) ==
    IF NaN \in {c.year, c.month, c.day, c.hours, c.minutes} THEN NaN
    ELSE LET m0 == c.month - 1
             y == c.year + (m0 \div 12)
             m == (m0 % 12) + 1
         IN  (DaysFromCivil(y, m, 1) + c.day - 1 - EpochDay) * 24 * OneHour
                + HHMM(c.hours, c.minutes)

(* what a call of parseDateTime gave: an Error thrown, or a Date *)
Resolved(c) == [thrown |-> FALSE, components |-> c, date |-> DateUTC(c)]
InvalidDateFormat ==
    [thrown |-> TRUE, components |-> Components(NaN, NaN, NaN, NaN, NaN),
     date |-> NaN]

(* webhook-handler.js parseDateTime, lines 200-217: year, month, day *)
whDateParts(dateStr) ==
    IF dateStr.sep = "-"
    THEN [thrown |-> FALSE, year |-> dateStr.a, month |-> dateStr.b, day |-> dateStr.c]
    ELSE IF dateStr.sep = "/"
    THEN IF dateStr.a > 12
         THEN [thrown |-> FALSE, year |-> dateStr.c, month |-> dateStr.b, day |-> dateStr.a]
         ELSE [thrown |-> FALSE, year |-> dateStr.c, month |-> dateStr.a, day |-> dateStr.b]
    ELSE [thrown |-> TRUE, year |-> NaN, month |-> NaN, day |-> NaN]

(* mutant: midnight is not special-cased *)
To24HourNoMidnight(timeStr) ==
    IF timeStr.marker = "" THEN timeStr.h
    ELSE IF timeStr.marker = "pm" /\ timeStr.h # 12 THEN timeStr.h + 12
    ELSE timeStr.h

(* webhook-handler.js parseDateTime, lines 220-232: hours *)
To24Hour(timeStr) ==
    LET isPM == timeStr.marker = "pm"
    IN  IF timeStr.marker = "" THEN timeStr.h
        ELSE IF isPM /\ timeStr.h # 12 THEN timeStr.h + 12
        ELSE IF ~isPM /\ timeStr.h = 12 THEN 0
        ELSE timeStr.h

(* mutant: the wall-clock time is shifted from the zone to UTC *)
whParseDateTimeInZone(dateStr, timeStr, timezone) ==
    LET d == whDateParts(dateStr)
        r == Resolved(Components(d.year, d.month, d.day, To24Hour(timeStr), timeStr.m))
        offset == IF timezone = "America/New_York" THEN 5 * OneHour
                  ELSE IF timezone = "Asia/Tokyo" THEN 0 - 9 * OneHour
                  ELSE 0
    IN  IF d.thrown THEN InvalidDateFormat
        ELSE [r EXCEPT !.date = IF @ = NaN THEN NaN ELSE @ + offset]

(* webhook-handler.js parseDateTime, lines 198-238 *)
whParseDateTime(dateStr, timeStr, timezone) ==
    LET d == whDateParts(dateStr)
    IN  IF d.thrown THEN InvalidDateFormat
        ELSE Resolved(Components(d.year, d.month, d.day, To24Hour(timeStr), timeStr.m))

(* parseDateTime of the toolCallList handler, part_000 lines 234-245:     *)
(* split on '-' and ':' only, so any other date gives NaN components and  *)
(* a time with a marker gives NaN minutes                                 *)
tlParseDateTime(dateStr, timeStr, timezone) ==
    LET year == IF dateStr.sep = "-" THEN dateStr.a ELSE NaN
        month == IF dateStr.sep = "-" THEN dateStr.b ELSE NaN
        day == IF dateStr.sep = "-" THEN dateStr.c ELSE NaN
        minutes == IF timeStr.marker = "" THEN timeStr.m ELSE NaN
    IN  Resolved(Components(year, month, day, timeStr.h, minutes))

(* api/vapi/calendar.js parseDateTime, lines 322-326 *)
apiParseDateTime(dateStr, timeStr) ==
    LET year == IF dateStr.sep = "-" THEN dateStr.a ELSE NaN
        month == IF dateStr.sep = "-" THEN dateStr.b ELSE NaN
        day == IF dateStr.sep = "-" THEN dateStr.c ELSE NaN
        minutes == IF timeStr.marker = "" THEN timeStr.m ELSE NaN
    IN  Resolved(Components(year, month, day, timeStr.h, minutes))

(* parseDateTime as the variant's handle* functions call it *)
parseDateTimeOf(via, dateStr, timeStr, timezone) ==
    IF via = "wh" THEN whParseDateTime(dateStr, timeStr, timezone)
    ELSE IF via = "tl" THEN tlParseDateTime(dateStr, timeStr, timezone)
    ELSE apiParseDateTime(dateStr, timeStr)

(* calculateDuration: part_000 lines 225-229, api/vapi/calendar.js 316-320 *)
calculateDuration(startTime, endTime) ==
    IF startTime.marker # "" \/ endTime.marker # "" THEN NaN
    ELSE (endTime.h * 60 + endTime.m) - (startTime.h * 60 + startTime.m)

(* endTime ? calculateDuration(startTime, endTime) : 30 *)
DurationOf(startTime, endTime) ==
    IF endTime.given THEN calculateDuration(startTime, endTime) ELSE 30

----------------------------------------------------------------------------
(* Request normalisation of the three handlers.  The result is either an   *)
(* invocation or the reason the handler answers at once.                   *)

Invocation(name, parameters, toolCallId) ==
    [status |-> "ok", name |-> name, parameters |-> parameters,
     toolCallId |-> toolCallId]
Rejected(why, toolCallId) ==
    [status |-> why, name |-> "", parameters |-> NoParams,
     toolCallId |-> toolCallId]

(* body.message?.toolCallList || body.message?.toolCalls || []: an empty  *)
(* array is truthy, so an empty toolCallList hides toolCalls              *)
apiToolCallList(b) ==
    IF b.toolCallList.present THEN b.toolCallList.items
    ELSE IF b.toolCalls.present THEN b.toolCalls.items
    ELSE <<>>

(* body.message?.toolCallList || [] *)
tlToolCallList(b) ==
    IF b.toolCallList.present THEN b.toolCallList.items ELSE <<>>

(* mutant: the last element of the list is processed *)
LastToolCall(list) == list[Len(list)]

(* const toolCall = toolCallList[0] *)
FirstToolCall(list) == list[1]

(* api/vapi/calendar.js handler, lines 40-72.  An arguments string is    *)
(* parsed only under "function"; read from the flat shape it has none of  *)
(* the fields.                                                            *)
apiNormalize(b) ==
    LET list == apiToolCallList(b)
    IN  IF Len(list) = 0 THEN Rejected("no_calls", Undefined)
        ELSE LET toolCall == FirstToolCall(list)
             IN  IF toolCall.shape = "function" /\ toolCall.encoding = "badjson"
                 THEN Rejected("threw", toolCall.id)
                 ELSE IF toolCall.name = ""
                 THEN Rejected("no_name", toolCall.id)
                 ELSE Invocation(toolCall.name,
                         IF toolCall.encoding = "none" THEN NoParams
                         ELSE IF toolCall.shape = "flat" /\ toolCall.encoding # "object"
                         THEN NoParams
                         ELSE toolCall.parameters, toolCall.id)

(* toolCallList handler, part_000 lines 21-37 *)
tlNormalize(b) ==
    LET list == tlToolCallList(b)
    IN  IF Len(list) = 0 THEN Rejected("no_calls", Undefined)
        ELSE LET toolCall == FirstToolCall(list)
             IN  IF toolCall.shape # "function"
                 THEN Rejected("no_name", toolCall.id)
                 ELSE IF toolCall.encoding \in {"badjson", "object"}
                 THEN Rejected("threw", toolCall.id)
                 ELSE IF toolCall.name = ""
                 THEN Rejected("no_name", toolCall.id)
                 ELSE Invocation(toolCall.name,
                         IF toolCall.encoding = "none" THEN NoParams
                         ELSE toolCall.parameters, toolCall.id)

(* webhook-handler.js, lines 21-26 *)
whNormalize(b) ==
    IF ~b.functionCall.present \/ b.functionCall.name = ""
    THEN Rejected("no_name", Undefined)
    ELSE Invocation(b.functionCall.name, b.functionCall.parameters, Undefined)

Normalize(b) ==
    IF b.via = "api" THEN apiNormalize(b)
    ELSE IF b.via = "tl" THEN tlNormalize(b)
    ELSE whNormalize(b)

(* api/vapi/calendar.js handler, lines 75-78 *)
apiUserId(b) ==
    IF b.callMetadataUser # Undefined THEN b.callMetadataUser
    ELSE IF b.overridesUser # Undefined THEN b.overridesUser
    ELSE IF b.messageCallMetadataUser # Undefined THEN b.messageCallMetadataUser
    ELSE 1

(* part_000 line 40, webhook-handler.js line 29 *)
UserId(b) ==
    IF b.via = "api" THEN apiUserId(b)
    ELSE IF b.via = "tl" THEN b.callMetadataUser
    ELSE b.overridesUser

----------------------------------------------------------------------------
(* Requests *)

BlankTokenResponse ==
    [ok |-> FALSE, json |-> FALSE, access_token |-> Undefined,
     expires_in |-> NaN, text |-> <<>>]

InitLoc ==
    [phase |-> "check", durationMinutes |-> 0, endTime |-> 0,
     integration |-> NoIntegration, accessToken |-> Undefined,
     resp |-> BlankTokenResponse, events |-> <<>>,
     availability |-> [available |-> FALSE, conflicts |-> <<>>],
     checked |-> FALSE, failOpen |-> FALSE, listed |-> FALSE,
     timeMin |-> 0, timeMax |-> 0]

InitOut ==
    [status |-> "pending", available |-> FALSE, conflicts |-> <<>>,
     success |-> FALSE, error |-> <<>>, calendarEventId |-> Undefined,
     result |-> ""]

InitCalls ==
    [lookup |-> 0, token |-> 0, update |-> 0, list |-> 0, create |-> 0,
     failed |-> 0]

Args == [impl : {"svc", "api"}, op : {"check", "book"},
         start : Starts, dur : Durations]

IdleArgs == [impl |-> "svc", op |-> "check", start |-> HHMM(10, 30), dur |-> 30]

RaceArgs == [impl |-> "svc", op |-> "book", start |-> HHMM(10, 30), dur |-> 60]

(* One request runs alone against any calendar and any integration *)
Init ==
    /\ now = Now0
    /\ store \in InitStores
    /\ calendar \in InitCalendars
    /\ issued = StoredToken
    /\ \E a \in Args : args = [p \in Requests |-> IF p = "r1" THEN a ELSE IdleArgs]
    /\ pc = [p \in Requests |-> IF p = "r1" THEN "start" ELSE "off"]
    /\ loc = [p \in Requests |-> InitLoc]
    /\ out = [p \in Requests |-> InitOut]
    /\ calls = [p \in Requests |-> InitCalls]
    /\ body = [p \in Requests |-> NoBody]
    /\ reply = [p \in Requests |-> NoReply]
    /\ parsed = NoParsed
    /\ mongo = IdleMongo

(* Two bookMeeting requests of calendar-service run concurrently *)
InitRace ==
    /\ now = Now0
    /\ store \in { Integration(TRUE, StoredToken, RefreshToken, Now0 + d) :
                      d \in {0 - MsPerMinute, OneHour} }
    /\ calendar = <<>>
    /\ issued = StoredToken
    /\ \E a \in Args :
          /\ a.impl = "svc" /\ a.op = "book"
          /\ args = [p \in Requests |-> IF p = "r1" THEN a ELSE RaceArgs]
    /\ pc = [p \in Requests |-> "start"]
    /\ loc = [p \in Requests |-> InitLoc]
    /\ out = [p \in Requests |-> InitOut]
    /\ calls = [p \in Requests |-> InitCalls]
    /\ body = [p \in Requests |-> NoBody]
    /\ reply = [p \in Requests |-> NoReply]
    /\ parsed = NoParsed
    /\ mongo = IdleMongo

Called(p, what) == [calls EXCEPT ![p][what] = @ + 1]

(* the call just made came back as a failure: a non-2xx status or a body   *)
(* that is not JSON                                                        *)
Failed(p, made, failure) ==
    IF failure THEN [made EXCEPT ![p].failed = @ + 1] ELSE made

----------------------------------------------------------------------------
(* calendar-service.js *)

(* a value returned by checkAvailability reaches its caller: the webhook   *)
(* handler for a check, bookMeeting lines 316-327 for a booking            *)
CheckReturns(p, l, availability) ==
    LET l2 == [l EXCEPT !.availability = availability, !.checked = TRUE]
    IN  IF args[p].op = "check"
        THEN /\ pc' = [pc EXCEPT ![p] = "done"]
             /\ loc' = [loc EXCEPT ![p] = l2]
             /\ out' = [out EXCEPT ![p].status = "returned",
                                   ![p].available = availability.available,
                                   ![p].conflicts = availability.conflicts]
        ELSE IF SlotTaken(availability)
        THEN /\ pc' = [pc EXCEPT ![p] = "done"]
             /\ loc' = [loc EXCEPT ![p] = l2]
             /\ out' = [out EXCEPT ![p].status = "returned",
                                   ![p].success = FALSE,
                                   ![p].error = SlotNotAvailableMsg(availability.conflicts)]
        ELSE /\ pc' = [pc EXCEPT ![p] = "load"]
             /\ loc' = [loc EXCEPT ![p] = [l2 EXCEPT !.phase = "create"]]
             /\ out' = out

(* an error leaves checkAvailability (line 227) or is caught by            *)
(* bookMeeting (lines 345-351)                                              *)
Propagates(p, l, message) ==
    /\ pc' = [pc EXCEPT ![p] = "done"]
    /\ loc' = [loc EXCEPT ![p] = l]
    /\ out' = IF args[p].op = "check"
              THEN [out EXCEPT ![p].status = "threw", ![p].error = message]
              ELSE [out EXCEPT ![p].status = "returned", ![p].success = FALSE,
                               ![p].error = message]

(* throw: inside checkAvailability the catch of lines 221-228 decides *)
Throws(p, l, message) ==
    IF l.phase = "check" /\ IsFailOpenError(message)
    THEN CheckReturns(p, [l EXCEPT !.failOpen = TRUE],
                      [available |-> TRUE, conflicts |-> <<>>])
    ELSE Propagates(p, l, message)

(* getValidAccessToken returned a token to checkAvailability (line 172)   *)
(* or to bookMeeting (line 327)                                            *)
TokenReturns(p, l, token) ==
    /\ pc' = [pc EXCEPT ![p] = IF l.phase = "check" THEN "list" ELSE "create"]
    /\ loc' = [loc EXCEPT ![p] = [l EXCEPT !.accessToken = token]]
    /\ out' = out

(* entry of checkAvailability / bookMeeting up to the first await *)
svcStart(p) ==
    /\ pc[p] = "start" /\ args[p].impl = "svc"
    /\ LET d == IF args[p].op = "book" THEN BookingDuration(args[p].dur)
                ELSE args[p].dur
       IN  loc' = [loc EXCEPT ![p].durationMinutes = d,
                              ![p].endTime = args[p].start + d * MsPerMinute,
                              ![p].phase = "check"]
    /\ pc' = [pc EXCEPT ![p] = "load"]
    /\ UNCHANGED <<parsed, mongo, body, reply, now, store, calendar, issued, args, out, calls>>

getUserIntegration(p) ==
    /\ pc[p] = "load" /\ args[p].impl = "svc"
    /\ loc' = [loc EXCEPT ![p].integration = getUserIntegrationResult(store)]
    /\ pc' = [pc EXCEPT ![p] = "decide"]
    /\ calls' = Called(p, "lookup")
    /\ UNCHANGED <<parsed, mongo, body, reply, now, store, calendar, issued, args, out>>

getValidAccessToken(p) ==
    /\ pc[p] = "decide" /\ args[p].impl = "svc"
    /\ LET l == loc[p] integration == l.integration
       IN  IF IsNotConnected(integration)
           THEN Throws(p, l, NotConnectedMsg)
           ELSE IF IsExpiring(integration, now)
           THEN IF integration.refreshToken = Undefined
                THEN Throws(p, l, NoRefreshTokenMsg)
                ELSE /\ pc' = [pc EXCEPT ![p] = "exchange"]
                     /\ UNCHANGED <<loc, out>>
           ELSE TokenReturns(p, l, integration.accessToken)
    /\ UNCHANGED <<parsed, mongo, body, reply, now, store, calendar, issued, args, calls>>

(* refreshAccessToken, lines 63-74: the token exchange *)
refreshAccessTokenFetch(p) ==
    /\ pc[p] = "exchange" /\ args[p].impl = "svc"
    /\ \E r \in TokenResponses(loc[p].integration.refreshToken, issued + 1) :
          /\ loc' = [loc EXCEPT ![p].resp = r]
          /\ issued' = IF r.access_token # Undefined THEN issued + 1 ELSE issued
    /\ pc' = [pc EXCEPT ![p] = "persist"]
    /\ calls' = Called(p, "token")
    /\ UNCHANGED <<parsed, mongo, body, reply, now, store, calendar, args, out>>

(* refreshAccessToken, lines 76-101: the response is handled and stored *)
refreshAccessTokenUpdate(p) ==
    /\ pc[p] = "persist" /\ args[p].impl = "svc"
    /\ LET l == loc[p] r == l.resp
       IN  IF ~r.ok
           THEN /\ Throws(p, [l EXCEPT !.resp = BlankTokenResponse],
                          TokenRefreshFailedMsg(r.text))
                /\ calls' = Failed(p, calls, TRUE)
                /\ store' = store
           ELSE IF ~r.json
           THEN /\ Throws(p, [l EXCEPT !.resp = BlankTokenResponse], JsonSyntaxErrorMsg)
                /\ calls' = Failed(p, calls, TRUE)
                /\ store' = store
           ELSE /\ store' = IF store.present
                            THEN [store EXCEPT
                                    !.accessToken = r.access_token,
                                    !.expiresAt = AddMs(now, Times(r.expires_in, 1000)),
                                    !.updatedAt = now]
                            ELSE store
                /\ calls' = Called(p, "update")
                /\ TokenReturns(p, [l EXCEPT !.resp = BlankTokenResponse], r.access_token)
    /\ UNCHANGED <<parsed, mongo, body, reply, now, calendar, issued, args>>

(* mutant: the provider is asked for the proposed slot only *)
QueryWindowUnpadded(proposedTime, proposedEnd) ==
    [timeMin |-> proposedTime, timeMax |-> proposedEnd]

(* checkAvailability, lines 178-180: one hour before and after the slot *)
QueryWindow(proposedTime, proposedEnd) ==
    [timeMin |-> proposedTime - 60 * 60 * 1000,
     timeMax |-> proposedEnd + 60 * 60 * 1000]

(* checkAvailability, lines 174-220, with getGoogleCalendarEvents *)
getGoogleCalendarEvents(p) ==
    /\ pc[p] = "list" /\ args[p].impl = "svc"
    /\ LET proposedTime == args[p].start
           proposedEnd == proposedTime + loc[p].durationMinutes * MsPerMinute
           window == QueryWindow(proposedTime, proposedEnd)
           l == [loc[p] EXCEPT !.timeMin = window.timeMin,
                               !.timeMax = window.timeMax]
       IN  \E r \in ListResponses(l.accessToken,
                                  ListItems(calendar, window.timeMin,
                                            window.timeMax, TRUE)) :
              /\ calls' = Failed(p, Called(p, "list"), ~r.ok \/ ~r.json)
              /\ IF ~r.ok THEN Throws(p, l, FetchEventsFailedMsg(r.text))
                 ELSE IF ~r.json THEN Throws(p, l, JsonSyntaxErrorMsg)
                 ELSE IF r.badItem THEN Throws(p, l, TypeErrorMsg)
                 ELSE LET events == MapEvents(r.items)
                      IN  CheckReturns(p, [l EXCEPT !.events = events,
                                                    !.listed = r.hasItems],
                             AvailabilityResult(Conflicts(events, proposedTime,
                                                          proposedEnd)))
    /\ UNCHANGED <<parsed, mongo, body, reply, now, store, calendar, issued, args>>

(* createGoogleCalendarEvent, lines 234-297, and bookMeeting's return *)
createGoogleCalendarEvent(p) ==
    /\ pc[p] = "create" /\ args[p].impl = "svc"
    /\ LET l == loc[p]
       IN  \E r \in CreateResponses(l.accessToken) :
              /\ calls' = Failed(p, Called(p, "create"), ~r.ok)
              /\ IF ~r.ok
                 THEN Throws(p, l, CreateEventFailedMsg(r.text)) /\ calendar' = calendar
                 ELSE /\ calendar' = Append(calendar,
                             ProviderEvent(calendar, "Meeting", args[p].start, l.endTime))
                      /\ pc' = [pc EXCEPT ![p] = "done"]
                      /\ out' = [out EXCEPT ![p].status = "returned",
                                            ![p].success = TRUE,
                                            ![p].calendarEventId = NewEventId(calendar)]
                      /\ loc' = loc
    /\ UNCHANGED <<parsed, mongo, body, reply, now, store, issued, args>>

----------------------------------------------------------------------------
(* api/vapi/calendar.js *)

(* getValidAccessToken, line 235 *)
apiTokenValid(integration, t) ==
    integration.expiresAt # NaN /\ DateLess(t, integration.expiresAt)

(* checkGoogleCalendar, line 281 *)
apiAvailable(data) == ~data.hasItems \/ Len(data.items) = 0

(* the catch blocks of handleCheckAvailability and handleBookMeeting *)
apiCatch(p, l) ==
    /\ pc' = [pc EXCEPT ![p] = "done"]
    /\ loc' = [loc EXCEPT ![p] = l]
    /\ out' = [out EXCEPT ![p].status = "returned",
                          ![p].result = IF args[p].op = "check" THEN "trouble"
                                        ELSE "book_error"]

apiTokenReturns(p, l, token) ==
    /\ pc' = [pc EXCEPT ![p] = IF args[p].op = "check" THEN "list" ELSE "create"]
    /\ loc' = [loc EXCEPT ![p] = [l EXCEPT !.accessToken = token]]
    /\ out' = out

(* handleCheckAvailability lines 132-155, handleBookMeeting lines 187-210 *)
apiFindIntegration(p) ==
    /\ pc[p] = "start" /\ args[p].impl = "api"
    /\ calls' = Called(p, "lookup")
    /\ LET l == [loc[p] EXCEPT !.durationMinutes = args[p].dur,
                               !.integration = store]
       IN  IF ~store.present
           THEN /\ pc' = [pc EXCEPT ![p] = "done"]
                /\ loc' = [loc EXCEPT ![p] = l]
                /\ out' = [out EXCEPT ![p].status = "returned",
                                      ![p].result = "not_connected"]
           ELSE /\ pc' = [pc EXCEPT ![p] = "decide"]
                /\ loc' = [loc EXCEPT ![p] = l]
                /\ out' = out
    /\ UNCHANGED <<parsed, mongo, body, reply, now, store, calendar, issued, args>>

(* getValidAccessToken, lines 233-249 *)
apiGetValidAccessToken(p) ==
    /\ pc[p] = "decide" /\ args[p].impl = "api"
    /\ IF apiTokenValid(loc[p].integration, now)
       THEN apiTokenReturns(p, loc[p], loc[p].integration.accessToken)
       ELSE /\ pc' = [pc EXCEPT ![p] = "exchange"]
            /\ UNCHANGED <<loc, out>>
    /\ UNCHANGED <<parsed, mongo, body, reply, now, store, calendar, issued, args, calls>>

apiRefreshFetch(p) ==
    /\ pc[p] = "exchange" /\ args[p].impl = "api"
    /\ \E r \in TokenResponses(loc[p].integration.refreshToken, issued + 1) :
          /\ loc' = [loc EXCEPT ![p].resp = r]
          /\ issued' = IF r.access_token # Undefined THEN issued + 1 ELSE issued
    /\ pc' = [pc EXCEPT ![p] = "persist"]
    /\ calls' = Called(p, "token")
    /\ UNCHANGED <<parsed, mongo, body, reply, now, store, calendar, args, out>>

(* getValidAccessToken, lines 251-266 *)
apiRefreshUpdate(p) ==
    /\ pc[p] = "persist" /\ args[p].impl = "api"
    /\ LET r == loc[p].resp
           l == [loc[p] EXCEPT !.resp = BlankTokenResponse]
       IN  IF ~r.json
           THEN /\ apiCatch(p, l)
                /\ calls' = Failed(p, calls, TRUE)
                /\ store' = store
           ELSE /\ store' = IF store.present
                            THEN [store EXCEPT
                                    !.accessToken = r.access_token,
                                    !.expiresAt = AddMs(now, Times(r.expires_in, 1000))]
                            ELSE store
                /\ calls' = Called(p, "update")
                /\ apiTokenReturns(p, l, r.access_token)
    /\ UNCHANGED <<parsed, mongo, body, reply, now, calendar, issued, args>>

(* checkGoogleCalendar, lines 269-282, and the result of lines 161-169 *)
checkGoogleCalendar(p) ==
    /\ pc[p] = "list" /\ args[p].impl = "api"
    /\ LET l == loc[p]
           startTime == args[p].start
           endTime == startTime + l.durationMinutes * 60000
       IN  \E data \in ListResponses(l.accessToken,
                                     ListItems(calendar, startTime, endTime, FALSE)) :
              /\ calls' = Failed(p, Called(p, "list"), ~data.ok \/ ~data.json)
              /\ IF ~data.json THEN apiCatch(p, l)
                 ELSE /\ pc' = [pc EXCEPT ![p] = "done"]
                      /\ loc' = [loc EXCEPT ![p] =
                                   [l EXCEPT !.checked = TRUE,
                                             !.availability =
                                                [available |-> apiAvailable(data),
                                                 conflicts |-> <<>>]]]
                      /\ out' = [out EXCEPT ![p].status = "returned",
                                            ![p].available = apiAvailable(data),
                                            ![p].result = IF apiAvailable(data)
                                                          THEN "available"
                                                          ELSE "not_available"]
    /\ UNCHANGED <<parsed, mongo, body, reply, now, store, calendar, issued, args>>

(* bookGoogleCalendarEvent, lines 284-314, and the result of lines 222-224 *)
bookGoogleCalendarEvent(p) ==
    /\ pc[p] = "create" /\ args[p].impl = "api"
    /\ LET l == loc[p]
           endTime == args[p].start + l.durationMinutes * 60000
       IN  \E r \in CreateResponses(l.accessToken) :
              /\ calendar' = IF r.ok
                             THEN Append(calendar,
                                     ProviderEvent(calendar, "Meeting", args[p].start, endTime))
                             ELSE calendar
              /\ calls' = Failed(p, Called(p, "create"), ~r.ok \/ ~r.json)
              /\ IF ~r.json THEN apiCatch(p, l)
                 ELSE /\ pc' = [pc EXCEPT ![p] = "done"]
                      /\ loc' = loc
                      /\ out' = [out EXCEPT ![p].status = "returned",
                                            ![p].result = "booked"]
    /\ UNCHANGED <<parsed, mongo, body, reply, now, store, issued, args>>

(* time passes between awaits *)
Tick ==
    /\ now < Now0 + MaxTicks * MsPerMinute
    /\ \E p \in Requests : pc[p] \notin {"done", "off"}
    /\ now' = now + MsPerMinute
    /\ UNCHANGED <<parsed, mongo, body, reply, store, calendar, issued, pc, args, loc, out, calls>>

NextRace ==
    \E p \in Requests :
          \/ svcStart(p)
          \/ getUserIntegration(p)
          \/ getValidAccessToken(p)
          \/ refreshAccessTokenFetch(p)
          \/ refreshAccessTokenUpdate(p)
          \/ getGoogleCalendarEvents(p)
          \/ createGoogleCalendarEvent(p)

SpecRace == InitRace /\ [][NextRace]_vars

Next ==
    \/ Tick
    \/ \E p \in Requests :
          \/ svcStart(p)
          \/ getUserIntegration(p)
          \/ getValidAccessToken(p)
          \/ refreshAccessTokenFetch(p)
          \/ refreshAccessTokenUpdate(p)
          \/ getGoogleCalendarEvents(p)
          \/ createGoogleCalendarEvent(p)
          \/ apiFindIntegration(p)
          \/ apiGetValidAccessToken(p)
          \/ apiRefreshFetch(p)
          \/ apiRefreshUpdate(p)
          \/ checkGoogleCalendar(p)
          \/ bookGoogleCalendarEvent(p)

Spec == Init /\ [][Next]_vars

----------------------------------------------------------------------------
(* The webhook handlers: webhook-handler.js ("wh", functionCall payload),  *)
(* the toolCallList handler of part_000 ("tl") and the serverless handler  *)
(* api/vapi/calendar.js ("api").  Texts are sequences of words; WHEN and   *)
(* EMAIL stand for the formatted date and the attendee's address.          *)

NoToolCallsMsg == <<"No", "tool", "calls", "found">>
MissingNameMsg == <<"Missing", "function", "name">>
UnknownFunctionMsg(name) == <<"Unknown", "function", ":", name>>
UnableMsg ==
    <<"I'm", "unable", "to", "access", "the", "calendar", "right", "now", ".",
      "Please", "contact", "support", ".">>
ApologyMsg == <<"I", "apologize", ",", "but", "I", "encountered", "an", "error">>
NeedDateTimeMsg ==
    <<"I", "need", "both", "a", "date", "and", "time", "to", "check",
      "availability", ".">>
NeedBookingFieldsMsg ==
    <<"I", "need", "the", "date", ",", "time", ",", "your", "name", ",",
      "and", "email", "to", "book", "the", "meeting", ".">>
TroubleMsg ==
    <<"I'm", "having", "trouble", "checking", "the", "calendar", "right",
      "now", ".">>
BookErrorMsg == <<"I", "encountered", "an", "error", "booking", "the", "meeting", ".">>
CalendarNotConnectedMsg ==
    <<"Your", "calendar", "is", "not", "connected", ".", "Please", "connect",
      "your", "Google", "Calendar", "first", ".">>
AvailableMsg ==
    <<"Great", "!", "WHEN", "is", "available", ".", "Would", "you", "like",
      "to", "book", "this", "time", "?">>
UnavailableMsg(conflicts) ==
    <<"Unfortunately", ",", "WHEN", "is", "not", "available", ".",
      "There's", "already">> \o Join(Titles(conflicts)) \o <<"scheduled", ".">>
apiUnavailableMsg ==
    <<"Unfortunately", ",", "WHEN", "is", "not", "available", ".">>
BookedMsg ==
    <<"Perfect", "!", "I've", "booked", "WHEN", "for", "you", ".", "You'll",
      "receive", "a", "calendar", "invite", "at", "EMAIL", "shortly", ".">>
NotBookedMsg(error) ==
    <<"I", "wasn't", "able", "to", "book", "that", "time", ".">>
       \o (IF error = <<>> THEN <<"Please", "try", "a", "different", "time", ".">>
           ELSE error)

CheckName == "check_calendar_availability"
BookName == "book_calendar_meeting"

(* mutant: the response is sent but the handler does not return *)
RespondNoReturn(p, status, kind, text, toolCallId, hasSuccess, success) ==
    /\ reply' = [reply EXCEPT ![p] =
                    [sent |-> reply[p].sent + 1, status |-> status, kind |-> kind,
                     text |-> text, toolCallId |-> toolCallId,
                     hasSuccess |-> hasSuccess, success |-> success]]
    /\ pc' = pc

(* res.status(status).json(...) ends the request *)
Respond(p, status, kind, text, toolCallId, hasSuccess, success) ==
    /\ reply' = [reply EXCEPT ![p] =
                    [sent |-> reply[p].sent + 1, status |-> status, kind |-> kind,
                     text |-> text, toolCallId |-> toolCallId,
                     hasSuccess |-> hasSuccess, success |-> success]]
    /\ pc' = [pc EXCEPT ![p] = "replied"]

(* the value a handle* function returned goes out: res.json(result) in     *)
(* webhook-handler.js line 59, results[{toolCallId, result}] in part_000   *)
(* lines 81-86 and api/vapi/calendar.js lines 103-108                      *)
HandlerReturns(p, text, success) ==
    IF body[p].via = "wh"
    THEN Respond(p, 200, "result", text, Undefined, TRUE, success)
    ELSE Respond(p, 200, "results", text, Normalize(body[p]).toolCallId, FALSE, FALSE)

(* the fields the handle* function of each variant reads *)
TimeParam(b, parameters) ==
    IF b.via = "wh" THEN parameters.time ELSE parameters.startTime
NamedParam(b, parameters) ==
    IF b.via = "wh" THEN parameters.lead ELSE parameters.attendee
DurationParam(b, parameters) ==
    IF b.via = "wh"
    THEN (IF parameters.duration.given THEN parameters.duration.minutes ELSE 30)
    ELSE DurationOf(parameters.startTime, parameters.endTime)
ParsedDateTime(b, parameters) ==
    parseDateTimeOf(b.via, parameters.date, TimeParam(b, parameters), parameters.timezone)

(* mutant: the handle* functions do not test their fields *)
MissingFieldsIgnored(b, name, parameters) == FALSE

MissingFields(b, name, parameters) ==
    \/ parameters.date.sep = "missing"
    \/ ~TimeParam(b, parameters).given
    \/ name = BookName /\ ~NamedParam(b, parameters)

(* handleCheckAvailability / handleBookMeeting up to the call into the    *)
(* calendar code                                                          *)
Dispatch(p, b, inv) ==
    LET op == IF inv.name = CheckName THEN "check" ELSE "book"
        resolved == ParsedDateTime(b, inv.parameters)
    IN  IF MissingFields(b, inv.name, inv.parameters)
        THEN /\ HandlerReturns(p, IF op = "check" THEN NeedDateTimeMsg
                                  ELSE NeedBookingFieldsMsg, FALSE)
             /\ args' = args
        ELSE IF resolved.thrown \/ resolved.date = NaN
        THEN /\ HandlerReturns(p, IF op = "check" THEN TroubleMsg
                                  ELSE BookErrorMsg, FALSE)
             /\ args' = args
        ELSE /\ args' = [args EXCEPT ![p] =
                           [impl |-> IF b.via = "api" THEN "api" ELSE "svc",
                            op |-> op, start |-> resolved.date,
                            dur |-> DurationParam(b, inv.parameters)]]
             /\ pc' = [pc EXCEPT ![p] = "start"]
             /\ reply' = reply

(* handleVAPICalendarWebhook / handler: from the request to the dispatch *)
hookReceive(p) ==
    /\ pc[p] = "recv"
    /\ LET b == body[p]
           inv == Normalize(b)
           kind == IF b.via = "wh" THEN "result" ELSE "results"
       IN  IF inv.status = "no_calls"
           THEN Respond(p, 400, "error", NoToolCallsMsg, Undefined, FALSE, FALSE)
                  /\ args' = args
           ELSE IF inv.status = "threw"
           THEN Respond(p, 500, kind, ApologyMsg, Undefined, FALSE, FALSE)
                  /\ args' = args
           ELSE IF inv.status = "no_name"
           THEN Respond(p, 400, "error", MissingNameMsg, Undefined, FALSE, FALSE)
                  /\ args' = args
           ELSE IF UserId(b) = Undefined
           THEN Respond(p, 200, kind, UnableMsg, inv.toolCallId, FALSE, FALSE)
                  /\ args' = args
           ELSE IF inv.name \notin {CheckName, BookName}
           THEN Respond(p, 400, "error", UnknownFunctionMsg(inv.name),
                        Undefined, FALSE, FALSE)
                  /\ args' = args
           ELSE Dispatch(p, b, inv)
    /\ UNCHANGED <<parsed, mongo, now, store, calendar, issued, loc, out, calls, body>>

(* the calendar code returned or threw: the handle* function words the    *)
(* outcome and the handler sends it                                       *)
hookReply(p) ==
    /\ pc[p] = "done" /\ body[p].via # "none"
    /\ LET o == out[p]
       IN  IF args[p].impl = "api"
           THEN HandlerReturns(p,
                   CASE o.result = "not_connected" -> CalendarNotConnectedMsg
                     [] o.result = "trouble" -> TroubleMsg
                     [] o.result = "book_error" -> BookErrorMsg
                     [] o.result = "available" -> AvailableMsg
                     [] o.result = "not_available" -> apiUnavailableMsg
                     [] OTHER -> BookedMsg, FALSE)
           ELSE IF args[p].op = "check"
           THEN IF o.status = "threw" THEN HandlerReturns(p, TroubleMsg, FALSE)
                ELSE IF o.available THEN HandlerReturns(p, AvailableMsg, TRUE)
                ELSE HandlerReturns(p, UnavailableMsg(o.conflicts), FALSE)
           ELSE IF o.success THEN HandlerReturns(p, BookedMsg, TRUE)
                ELSE HandlerReturns(p, NotBookedMsg(o.error), FALSE)
    /\ UNCHANGED <<parsed, mongo, now, store, calendar, issued, args, loc, out, calls, body>>

----------------------------------------------------------------------------
(* Deliveries to the handlers *)

BaseParams ==
    [date |-> DateStr("-", 2026, 1, 20), time |-> TimeStr(10, 30, ""),
     startTime |-> TimeStr(10, 30, ""), endTime |-> NoTimeStr,
     duration |-> NoMinutes, timezone |-> "UTC", lead |-> TRUE, attendee |-> TRUE]

(* end times after, at and before the start; a slash date with an am      *)
(* marker; a date without separators; missing fields                      *)
HookParams ==
    { BaseParams,
      [BaseParams EXCEPT !.endTime = TimeStr(11, 30, ""), !.duration = Minutes(60)],
      [BaseParams EXCEPT !.endTime = TimeStr(10, 30, ""), !.duration = Minutes(0)],
      [BaseParams EXCEPT !.endTime = TimeStr(10, 0, "")],
      [BaseParams EXCEPT !.date = DateStr("/", 20, 1, 2026),
                         !.time = TimeStr(10, 30, "am"),
                         !.startTime = TimeStr(10, 30, "am")],
      [BaseParams EXCEPT !.date = DateStr("none", 0, 0, 0)],
      [BaseParams EXCEPT !.lead = FALSE, !.attendee = FALSE],
      NoParams }

HookNames == {CheckName, BookName, "cancel_meeting", ""}

Payload(toolCallList, toolCalls, functionCall) ==
    [toolCallList |-> toolCallList, toolCalls |-> toolCalls,
     functionCall |-> functionCall]

(* one invocation in each of the shapes the caller may send *)
ShapesOf(name, parameters) ==
    { Payload(List(<<ToolCall(11, "function", name, "json", parameters)>>),
              NoList, NoFunctionCall),
      Payload(List(<<ToolCall(11, "flat", name, "object", parameters)>>),
              NoList, NoFunctionCall),
      Payload(NoList, List(<<ToolCall(11, "function", name, "json", parameters)>>),
              NoFunctionCall),
      Payload(NoList, NoList, FunctionCall(name, parameters)) }

OddPayloads ==
    LET check == ToolCall(11, "function", CheckName, "json", BaseParams)
        book == ToolCall(12, "function", BookName, "json", BaseParams)
    IN  { Payload(NoList, NoList, NoFunctionCall),
          Payload(List(<<>>), NoList, FunctionCall(CheckName, BaseParams)),
          Payload(List(<<>>), List(<<check>>), NoFunctionCall),
          Payload(List(<<check, book>>), NoList, NoFunctionCall),
          Payload(List(<<book, check>>), NoList, NoFunctionCall),
          Payload(NoList, List(<<check, book>>), NoFunctionCall),
          Payload(List(<<[check EXCEPT !.encoding = "badjson"]>>), NoList, NoFunctionCall),
          Payload(List(<<[check EXCEPT !.encoding = "object"]>>), NoList, NoFunctionCall),
          Payload(List(<<[check EXCEPT !.encoding = "none"]>>), NoList, NoFunctionCall),
          Payload(List(<<[check EXCEPT !.shape = "flat"]>>), NoList, NoFunctionCall) }

Payloads ==
    OddPayloads \cup
    UNION { ShapesOf(n, ps) : n \in HookNames, ps \in HookParams }

(* where the caller may have put the user id *)
Identities ==
    { [callMetadataUser |-> Undefined, overridesUser |-> Undefined,
       messageCallMetadataUser |-> Undefined],
      [callMetadataUser |-> 1, overridesUser |-> Undefined,
       messageCallMetadataUser |-> Undefined],
      [callMetadataUser |-> Undefined, overridesUser |-> 1,
       messageCallMetadataUser |-> Undefined],
      [callMetadataUser |-> Undefined, overridesUser |-> Undefined,
       messageCallMetadataUser |-> 1] }

Body(via, payload, identity) ==
    [via |-> via, toolCallList |-> payload.toolCallList,
     toolCalls |-> payload.toolCalls, functionCall |-> payload.functionCall,
     callMetadataUser |-> identity.callMetadataUser,
     overridesUser |-> identity.overridesUser,
     messageCallMetadataUser |-> identity.messageCallMetadataUser]

Bodies ==
    { Body(via, payload, identity) :
        via \in {"wh", "tl", "api"}, payload \in Payloads, identity \in Identities }

HookStores ==
    { NoIntegration,
      Integration(TRUE, StoredToken, RefreshToken, Now0 + OneHour),
      Integration(TRUE, StoredToken, RefreshToken, Now0 - MsPerMinute) }

HookCalendars ==
    { <<>>,
      <<[id |-> 1, summary |-> "Standup", start |-> HHMM(10, 0),
         end |-> HHMM(11, 0), dateTime |-> TRUE]>> }

(* One delivery to any of the three handlers, any stored integration *)
InitHook ==
    /\ now = Now0
    /\ store \in HookStores
    /\ calendar \in HookCalendars
    /\ issued = StoredToken
    /\ args = [p \in Requests |-> IdleArgs]
    /\ pc = [p \in Requests |-> IF p = "r1" THEN "recv" ELSE "off"]
    /\ loc = [p \in Requests |-> InitLoc]
    /\ out = [p \in Requests |-> InitOut]
    /\ calls = [p \in Requests |-> InitCalls]
    /\ \E b \in Bodies : body = [p \in Requests |-> IF p = "r1" THEN b ELSE NoBody]
    /\ reply = [p \in Requests |-> NoReply]
    /\ parsed = NoParsed
    /\ mongo = IdleMongo

NextHook ==
    \E p \in Requests :
          \/ hookReceive(p)
          \/ hookReply(p)
          \/ svcStart(p)
          \/ getUserIntegration(p)
          \/ getValidAccessToken(p)
          \/ refreshAccessTokenFetch(p)
          \/ refreshAccessTokenUpdate(p)
          \/ getGoogleCalendarEvents(p)
          \/ createGoogleCalendarEvent(p)
          \/ apiFindIntegration(p)
          \/ apiGetValidAccessToken(p)
          \/ apiRefreshFetch(p)
          \/ apiRefreshUpdate(p)
          \/ checkGoogleCalendar(p)
          \/ bookGoogleCalendarEvent(p)

SpecHook == InitHook /\ [][NextHook]_vars

----------------------------------------------------------------------------
(* parseDateTime on its own: any variant, date, time and timezone hint *)

ParseDates ==
    { DateStr("-", 2026, 1, 20), DateStr("-", 2026, 2, 3),
      DateStr("/", 13, 1, 2026), DateStr("/", 31, 1, 2026),
      DateStr("/", 1, 13, 2026), DateStr("/", 2, 1, 2026),
      DateStr("/", 12, 31, 2025), DateStr("none", 0, 0, 0) }

ParseTimes ==
    { TimeStr(10, 30, ""), TimeStr(0, 0, ""), TimeStr(23, 59, ""),
      TimeStr(12, 0, "am"), TimeStr(12, 30, "pm"), TimeStr(2, 30, "pm"),
      TimeStr(9, 15, "am"), TimeStr(11, 59, "pm") }

Timezones == {"UTC", "America/New_York", "Asia/Tokyo"}

InitParse ==
    /\ now = Now0
    /\ store = NoIntegration
    /\ calendar = <<>>
    /\ issued = StoredToken
    /\ args = [p \in Requests |-> IdleArgs]
    /\ pc = [p \in Requests |-> "off"]
    /\ loc = [p \in Requests |-> InitLoc]
    /\ out = [p \in Requests |-> InitOut]
    /\ calls = [p \in Requests |-> InitCalls]
    /\ body = [p \in Requests |-> NoBody]
    /\ reply = [p \in Requests |-> NoReply]
    /\ mongo = IdleMongo
    /\ \E via \in {"wh", "tl", "api"}, dateStr \in ParseDates,
          timeStr \in ParseTimes, timezone \in Timezones :
          parsed = [NoParsed EXCEPT !.phase = "input", !.via = via,
                                    !.dateStr = dateStr, !.timeStr = timeStr,
                                    !.timezone = timezone]

parseDateTime ==
    /\ parsed.phase = "input"
    /\ parsed' = [parsed EXCEPT
                    !.phase = "done",
                    !.result = parseDateTimeOf(parsed.via, parsed.dateStr,
                                               parsed.timeStr, parsed.timezone)]
    /\ UNCHANGED <<now, store, calendar, issued, pc, args, loc, out, calls,
                   body, reply, mongo>>

SpecParse == InitParse /\ [][parseDateTime]_vars

(* The MongoDB client caches under concurrent callers.  A client is named  *)
(* by its creation number; a database handle by the client it belongs to.  *)
MongoOthersUnchanged ==
    UNCHANGED <<now, store, calendar, issued, pc, args, loc, out, calls,
                body, reply, parsed>>

InitMongo ==
    /\ now = Now0
    /\ store = NoIntegration
    /\ calendar = <<>>
    /\ issued = StoredToken
    /\ args = [p \in Requests |-> IdleArgs]
    /\ pc = [p \in Requests |-> "off"]
    /\ loc = [p \in Requests |-> InitLoc]
    /\ out = [p \in Requests |-> InitOut]
    /\ calls = [p \in Requests |-> InitCalls]
    /\ body = [p \in Requests |-> NoBody]
    /\ reply = [p \in Requests |-> NoReply]
    /\ parsed = NoParsed
    /\ \E impl \in {"svc", "api"} : mongo = [IdleMongo EXCEPT !.impl = impl]

(* calendar-service.js getMongoDb up to its first suspension or return *)
getMongoDb(c) ==
    /\ mongo.impl = "svc"
    /\ mongo.caller[c].at = "idle"
    /\ IF mongo.cachedDb # NoClient
         THEN mongo' = [mongo EXCEPT
                  !.caller[c] = [at |-> "returned", client |-> NoClient,
                                 handle |-> mongo.cachedDb,
                                 early |-> mongo.cachedDb \notin mongo.connected]]
         ELSE IF mongo.cachedClient = NoClient
           THEN mongo' = [mongo EXCEPT
                  !.created = @ + 1,
                  !.cachedClient = mongo.created + 1,
                  !.caller[c] = [at |-> "connecting", client |-> mongo.created + 1,
                                 handle |-> NoClient, early |-> FALSE]]
           ELSE mongo' = [mongo EXCEPT
                  !.cachedDb = mongo.cachedClient,
                  !.caller[c] = [at |-> "returned", client |-> NoClient,
                                 handle |-> mongo.cachedClient,
                                 early |-> mongo.cachedClient \notin mongo.connected]]
    /\ MongoOthersUnchanged

(* the awaited connect resolves: the rest of getMongoDb runs *)
getMongoDbConnected(c) ==
    /\ mongo.impl = "svc"
    /\ mongo.caller[c].at = "connecting"
    /\ mongo' = [mongo EXCEPT
           !.connected = @ \cup {mongo.caller[c].client},
           !.cachedDb = mongo.cachedClient,
           !.caller[c] = [at |-> "returned", client |-> mongo.caller[c].client,
                          handle |-> mongo.cachedClient,
                          early |-> mongo.cachedClient \notin
                                      (mongo.connected \cup {mongo.caller[c].client})]]
    /\ MongoOthersUnchanged

(* the awaited connect rejects: getMongoDb throws, cachedClient stays set *)
getMongoDbConnectFails(c) ==
    /\ mongo.impl = "svc"
    /\ mongo.caller[c].at = "connecting"
    /\ mongo' = [mongo EXCEPT !.caller[c].at = "failed"]
    /\ MongoOthersUnchanged

(* api/vapi/calendar.js getMongoClient up to its suspension or return *)
getMongoClient(c) ==
    /\ mongo.impl = "api"
    /\ mongo.caller[c].at = "idle"
    /\ IF mongo.cachedClient # NoClient
         THEN mongo' = [mongo EXCEPT
                  !.caller[c] = [at |-> "returned", client |-> NoClient,
                                 handle |-> mongo.cachedClient,
                                 early |-> mongo.cachedClient \notin mongo.connected]]
         ELSE mongo' = [mongo EXCEPT
                  !.created = @ + 1,
                  !.caller[c] = [at |-> "connecting", client |-> mongo.created + 1,
                                 handle |-> NoClient, early |-> FALSE]]
    /\ MongoOthersUnchanged

(* the awaited connect resolves: the client is cached and returned *)
getMongoClientConnected(c) ==
    /\ mongo.impl = "api"
    /\ mongo.caller[c].at = "connecting"
    /\ mongo' = [mongo EXCEPT
           !.connected = @ \cup {mongo.caller[c].client},
           !.cachedClient = mongo.caller[c].client,
           !.caller[c] = [at |-> "returned", client |-> mongo.caller[c].client,
                          handle |-> mongo.caller[c].client, early |-> FALSE]]
    /\ MongoOthersUnchanged

(* the awaited connect rejects: getMongoClient throws, nothing is cached *)
getMongoClientConnectFails(c) ==
    /\ mongo.impl = "api"
    /\ mongo.caller[c].at = "connecting"
    /\ mongo' = [mongo EXCEPT !.caller[c].at = "failed"]
    /\ MongoOthersUnchanged

NextMongo ==
    \E c \in Callers :
        \/ getMongoDb(c)
        \/ getMongoDbConnected(c)
        \/ getMongoDbConnectFails(c)
        \/ getMongoClient(c)
        \/ getMongoClientConnected(c)
        \/ getMongoClientConnectFails(c)

SpecMongo == InitMongo /\ [][NextMongo]_vars

(* Every awaited call settles and the handler runs to its response *)
FairHook == SpecHook /\ WF_vars(NextHook)

----------------------------------------------------------------------------
(* Properties *)

(* C1: in bookMeeting, when the availability check reports a conflict the  *)
(* outcome is success=false with the error "Time slot not available.       *)
(* Conflicts with: <titles joined by commas>", and create-event has been   *)
(* invoked zero times in that request.                                     *)
C1_ConflictRefusesBooking ==
    \A p \in Requests :
        (/\ args[p].impl = "svc" /\ args[p].op = "book"
         /\ loc[p].checked /\ ~loc[p].availability.available)
        => LET c == loc[p].availability.conflicts
               said == <<"Time", "slot", "not", "available", ".",
                         "Conflicts", "with", ":">>
           IN  /\ pc[p] = "done" /\ out[p].status = "returned"
               /\ out[p].success = FALSE
               /\ out[p].calendarEventId = Undefined
               /\ calls[p].create = 0
               /\ Len(c) \in 1..2
               /\ Len(c) = 1 => out[p].error = said \o <<c[1].title>>
               /\ Len(c) = 2 => out[p].error = said \o <<c[1].title, ",", c[2].title>>

C1_Witness ==
    \E p \in Requests :
        /\ args[p].impl = "svc" /\ args[p].op = "book" /\ pc[p] = "done"
        /\ Len(loc[p].availability.conflicts) = 2
        /\ out[p].error = <<"Time", "slot", "not", "available", ".",
                            "Conflicts", "with", ":", "Standup", ",", "Busy">>
        /\ calls[p].create = 0

(* C2: in every booking path (bookMeeting of calendar-service and          *)
(* handleBookMeeting of api/vapi/calendar.js) a create-event call is       *)
(* issued only after an availability check of the same request has         *)
(* completed and found the slot available.                                 *)
C2_CreateOnlyAfterCheck ==
    \A p \in Requests :
        calls[p].create > 0 => loc[p].checked /\ loc[p].availability.available

(* C3: checkAvailability counts an event as a conflict iff                 *)
(* event.start < proposedEnd and event.end > proposedStart, with           *)
(* proposedEnd = proposedStart + duration; an event that only touches a    *)
(* boundary is never a conflict.                                           *)
C3_OverlapRule ==
    \A p \in Requests :
        (args[p].impl = "svc" /\ loc[p].checked /\ ~loc[p].failOpen)
        => LET proposedStart == args[p].start
               proposedEnd == proposedStart + loc[p].durationMinutes * 60 * 1000
               c == loc[p].availability.conflicts
           IN  \A i \in 1..Len(loc[p].events) :
                  LET e == loc[p].events[i]
                      counted == \E j \in 1..Len(c) : c[j] = e
                  IN  /\ counted <=> (e.start < proposedEnd /\ e.end > proposedStart)
                      /\ (e.end = proposedStart \/ e.start = proposedEnd) => ~counted

C3_Witness ==
    \E p \in Requests :
        /\ args[p].impl = "svc" /\ loc[p].checked /\ loc[p].listed
        /\ Len(loc[p].events) = 2 /\ Len(loc[p].availability.conflicts) = 1
        /\ \E i \in 1..2 :
              /\ loc[p].events[i].end = args[p].start
              /\ loc[p].events[i] # loc[p].availability.conflicts[1]

(* C4: every result of checkAvailability has available=true exactly when   *)
(* conflicts is empty; when available=false, conflicts is exactly the      *)
(* subsequence of the events the provider returned that overlap the slot,  *)
(* in the provider's order.                                                *)
C4_ResultShape ==
    \A p \in Requests :
        (args[p].impl = "svc" /\ loc[p].checked)
        => LET a == loc[p].availability
               c == a.conflicts
               ev == loc[p].events
               proposedStart == args[p].start
               proposedEnd == proposedStart + loc[p].durationMinutes * 60 * 1000
               hit(e) == e.start < proposedEnd /\ e.end > proposedStart
               at(e) == CHOOSE i \in 1..Len(ev) : ev[i] = e
           IN  /\ a.available <=> (c = <<>>)
               /\ (args[p].op = "check" /\ out[p].status = "returned")
                     => out[p].available = a.available /\ out[p].conflicts = c
               /\ ~a.available =>
                     /\ \A j \in 1..Len(c) : hit(c[j]) /\ \E i \in 1..Len(ev) : ev[i] = c[j]
                     /\ \A i \in 1..Len(ev) :
                           hit(ev[i]) => Cardinality({j \in 1..Len(c) : c[j] = ev[i]}) = 1
                     /\ \A j, k \in 1..Len(c) : j < k => at(c[j]) < at(c[k])

C4_Witness ==
    \E p \in Requests :
        /\ args[p].impl = "svc" /\ args[p].op = "check" /\ out[p].status = "returned"
        /\ ~out[p].available
        /\ Len(loc[p].events) = 2 /\ Len(out[p].conflicts) = 2
        /\ out[p].conflicts = loc[p].events

(* C5: an availability check for a user without an integration record     *)
(* returns available=true with no conflicts instead of an error, and       *)
(* issues no token-exchange and no list-events call, in calendar-service   *)
(* and in api/vapi/calendar.js alike.                                      *)
C5_NoIntegrationFailsOpen ==
    \A p \in Requests :
        (args[p].op = "check" /\ pc[p] = "done" /\ ~store.present)
        => /\ out[p].status = "returned"
           /\ out[p].available /\ out[p].conflicts = <<>>
           /\ calls[p].token = 0 /\ calls[p].list = 0

(* C6: checkAvailability fails open only for the not-connected failure; a  *)
(* missing refresh token, a failed token refresh or a failed or malformed  *)
(* list-events response propagates an error whatever text the provider     *)
(* sent, and never yields available=true.                                  *)
C6_FailOpenOnlyWhenNotConnected ==
    \A p \in Requests :
        (args[p].impl = "svc" /\ loc[p].failOpen)
        => /\ ~loc[p].integration.present \/ loc[p].integration.accessToken = Undefined
           /\ calls[p].token = 0 /\ calls[p].list = 0

(* C7: bookMeeting for a user without an integration record returns        *)
(* success=false with an error saying the calendar is not connected and    *)
(* never invokes create-event, although its availability check failed      *)
(* open and reported the slot available.                                   *)
C7_BookingWithoutIntegration ==
    \A p \in Requests :
        (args[p].impl = "svc" /\ args[p].op = "book" /\ ~store.present)
        => /\ calls[p].create = 0
           /\ out[p].calendarEventId = Undefined
           /\ pc[p] = "done" =>
                 /\ out[p].status = "returned" /\ out[p].success = FALSE
                 /\ \E i \in 1..Len(out[p].error) - 1 :
                       out[p].error[i] = "not" /\ out[p].error[i + 1] = "connected"
                 /\ loc[p].checked /\ loc[p].availability.available

C7_Witness ==
    \E p \in Requests :
        /\ args[p].impl = "svc" /\ args[p].op = "book" /\ ~store.present
        /\ pc[p] = "done" /\ ~out[p].success
        /\ loc[p].failOpen /\ loc[p].availability.available
        /\ calls[p].lookup = 2 /\ calls[p].create = 0

(* C8: the check and create steps of bookMeeting are not atomic.  Two      *)
(* concurrent bookMeeting requests for overlapping slots on a free         *)
(* calendar can both list the calendar before either creates, both return  *)
(* success=true, and leave two overlapping events.  Whenever both succeed  *)
(* after a real listing, each listing was empty (it preceded both          *)
(* creations) and the calendar holds one event per request.                *)
C8_DoubleBookingByRace ==
    \A p, q \in Requests :
        (/\ p # q
         /\ pc[p] = "done" /\ out[p].success /\ loc[p].listed
         /\ pc[q] = "done" /\ out[q].success /\ loc[q].listed)
        => /\ loc[p].events = <<>> /\ loc[q].events = <<>>
           /\ Len(calendar) = 2
           /\ \E i, j \in 1..2 :
                 /\ i # j
                 /\ calendar[i].id = out[p].calendarEventId
                 /\ calendar[j].id = out[q].calendarEventId
                 /\ calendar[i].start = args[p].start
                 /\ calendar[j].start = args[q].start
                 /\ calendar[i].start < calendar[j].end
                 /\ calendar[j].start < calendar[i].end

C8_Witness ==
    /\ \A p \in Requests :
          /\ pc[p] = "done" /\ out[p].success
          /\ loc[p].listed /\ ~loc[p].failOpen /\ calls[p].list = 1
          /\ calls[p].create = 1
    /\ Len(calendar) = 2
    /\ calendar[1].start < calendar[2].end /\ calendar[2].start < calendar[1].end
    /\ calendar[1].start # calendar[2].start

(* C9: when a token refresh fails (a non-success response, or a body that  *)
(* is malformed or lacks the token or lifetime fields) getValidAccessToken *)
(* fails and the stored integration record is left unchanged, in           *)
(* calendar-service and in api/vapi/calendar.js alike.                     *)
C9_FailedRefreshLeavesRecord ==
    [][\A p \in Requests :
          (/\ pc[p] = "persist" /\ pc'[p] # "persist"
           /\ ~(/\ loc[p].resp.ok /\ loc[p].resp.json
                /\ loc[p].resp.access_token # Undefined
                /\ loc[p].resp.expires_in # NaN))
          => /\ store' = store
             /\ pc'[p] \notin {"list", "create"}
             /\ loc'[p].accessToken = loc[p].accessToken]_vars

(* C10: when the stored integration is Valid (access token present, expiry *)
(* beyond the threshold) getValidAccessToken returns the stored access     *)
(* token, performs no token exchange and leaves the record unchanged.      *)
C10_ValidTokenReturned ==
    [][\A p \in Requests :
          (/\ args[p].impl = "svc"
           /\ pc[p] = "decide" /\ pc'[p] # "decide"
           /\ loc[p].integration.present
           /\ loc[p].integration.accessToken # Undefined
           /\ loc[p].integration.expiresAt > now + 5 * 60 * 1000)
          => /\ pc'[p] \in {"list", "create"}
             /\ loc'[p].accessToken = loc[p].integration.accessToken
             /\ loc'[p].accessToken = store.accessToken
             /\ calls'[p].token = calls[p].token
             /\ calls'[p].update = calls[p].update
             /\ store' = store /\ issued' = issued]_vars

C10_Witness ==
    \E p \in Requests :
        /\ args[p].impl = "svc" /\ pc[p] = "list"
        /\ loc[p].integration.expiresAt > now + 5 * 60 * 1000
        /\ loc[p].accessToken = StoredToken /\ store.accessToken = StoredToken
        /\ calls[p].token = 0 /\ now > Now0

(* C11: getValidAccessToken refreshes instead of returning the stored       *)
(* token whenever the stored expiry is within 5 minutes of now (exactly 5  *)
(* minutes away included) or already past, and returns the stored token    *)
(* without refresh only when the expiry is more than 5 minutes away, in    *)
(* calendar-service and in api/vapi/calendar.js alike.                     *)
C11_ExpiringWithinFiveMinutes ==
    [][\A p \in Requests :
          (/\ pc[p] = "decide" /\ pc'[p] # "decide"
           /\ loc[p].integration.present
           /\ loc[p].integration.accessToken # Undefined
           /\ loc[p].integration.refreshToken # Undefined
           /\ loc[p].integration.expiresAt # NaN)
          => IF loc[p].integration.expiresAt <= now + 5 * 60 * 1000
             THEN pc'[p] = "exchange"
             ELSE /\ pc'[p] \in {"list", "create"}
                  /\ loc'[p].accessToken = loc[p].integration.accessToken]_vars

(* C12: when the token is expiring or expired and the integration has no   *)
(* refresh token, getValidAccessToken fails with a re-authorization error  *)
(* without calling the token endpoint and without updating the record, in  *)
(* calendar-service and in api/vapi/calendar.js alike.                     *)
C12_NoRefreshTokenFails ==
    [][\A p \in Requests :
          (/\ pc[p] = "decide" /\ pc'[p] # "decide"
           /\ loc[p].integration.present
           /\ loc[p].integration.accessToken # Undefined
           /\ loc[p].integration.refreshToken = Undefined
           /\ loc[p].integration.expiresAt # NaN
           /\ loc[p].integration.expiresAt < now + 5 * 60 * 1000)
          => /\ pc'[p] = "done"
             /\ ~out'[p].success /\ ~out'[p].available
             /\ calls'[p].token = 0 /\ calls'[p].update = 0
             /\ store' = store]_vars

(* C13: after a successful refresh the new access token is persisted       *)
(* together with expiry = (time of refresh) + provider-reported lifetime,  *)
(* and the token returned to the caller equals the access token now        *)
(* stored.                                                                 *)
C13_RefreshPersistsAndReturns ==
    [][\A p \in Requests :
          (/\ pc[p] = "persist" /\ pc'[p] # "persist"
           /\ loc[p].resp.ok /\ loc[p].resp.json
           /\ loc[p].resp.access_token # Undefined
           /\ loc[p].resp.expires_in # NaN)
          => /\ store'.accessToken = loc[p].resp.access_token
             /\ store'.expiresAt = now + loc[p].resp.expires_in * 1000
             /\ pc'[p] \in {"list", "create"}
             /\ loc'[p].accessToken = store'.accessToken]_vars

C13_Witness ==
    \E p \in Requests :
        /\ args[p].impl = "svc" /\ pc[p] = "list"
        /\ calls[p].token = 1 /\ calls[p].update = 1
        /\ loc[p].accessToken = StoredToken + 1
        /\ store.accessToken = StoredToken + 1
        /\ store.expiresAt = now + 3600 * 1000
        /\ now > Now0

(* C14: the integration record is never deleted or created by this code,   *)
(* its refresh token never changes, and its access token and expiry        *)
(* change only as part of a successful token refresh.                      *)
C14_RecordChangesOnlyOnRefresh ==
    [][/\ store'.present = store.present
       /\ store'.refreshToken = store.refreshToken
       /\ (store'.accessToken # store.accessToken \/ store'.expiresAt # store.expiresAt)
             => \E p \in Requests :
                   /\ pc[p] = "persist" /\ pc'[p] # "persist"
                   /\ loc[p].resp.ok /\ loc[p].resp.json
                   /\ loc[p].resp.access_token # Undefined
                   /\ loc[p].resp.expires_in # NaN]_vars

(* C15: when two requests refresh the token concurrently, the token left   *)
(* in the store is that of the most recent exchange; a token from an       *)
(* earlier exchange never overwrites a newer one.                          *)
C15_NoStaleOverwrite ==
    [][(store.accessToken # Undefined /\ store'.accessToken # Undefined)
          => store'.accessToken >= store.accessToken]_vars


(* C16: a delivery whose end time is not later than its start time (the    *)
(* computed duration is zero or negative) is rejected: it makes no         *)
(* availability query and creates no event.                                *)
C16_NonPositiveDurationRejected ==
    \A p \in Requests :
        LET inv == Normalize(body[p])
            d == calculateDuration(inv.parameters.startTime, inv.parameters.endTime)
        IN  ( /\ body[p].via \in {"tl", "api"}
              /\ inv.status = "ok"
              /\ inv.parameters.endTime.given
              /\ d # NaN /\ d <= 0 )
            => calls[p].list = 0 /\ calls[p].create = 0


(* C17: no text sent back to the voice agent contains the error text the   *)
(* provider returned.                                                      *)
C17_NoProviderTextInReply ==
    \A p \in Requests :
        reply[p].sent > 0 =>
            \A e \in ErrorBodies : ~Includes(reply[p].text, e[2])


(* C18: a delivery that names a function but carries no user id in any of  *)
(* the identity locations is answered with the generic "unable to access   *)
(* the calendar" text, and makes no integration lookup and no provider     *)
(* call.                                                                   *)
C18_NoIdentityNoLookup ==
    \A p \in Requests :
        LET b == body[p]
        IN  ( /\ b.via # "none"
              /\ Normalize(b).status = "ok"
              /\ b.callMetadataUser = Undefined
              /\ b.overridesUser = Undefined
              /\ b.messageCallMetadataUser = Undefined )
            => /\ calls[p] = InitCalls
               /\ reply[p].sent > 0 => reply[p].text = UnableMsg


(* C19: when the tool-call list of a delivery has several elements, only   *)
(* the first is dispatched: the operation that runs is the one the first   *)
(* element names, a first element that checks never creates an event, at   *)
(* most one availability query and one creation are made, and the answer   *)
(* carries the first element's id.                                         *)
C19_OnlyFirstDispatched ==
    \A p \in Requests :
        LET b == body[p]
            list == IF b.via = "api" THEN apiToolCallList(b) ELSE tlToolCallList(b)
        IN  (b.via \in {"tl", "api"} /\ Len(list) >= 2) =>
               /\ calls[p] # InitCalls =>
                     args[p].op = (IF list[1].name = CheckName THEN "check" ELSE "book")
               /\ list[1].name = CheckName => calls[p].create = 0
               /\ calls[p].list <= 1 /\ calls[p].create <= 1
               /\ reply[p].sent <= 1
               /\ (reply[p].sent = 1 /\ reply[p].status = 200) =>
                     reply[p].toolCallId = list[1].id

(* a two-element list whose first element checked and was answered, while  *)
(* the booking that follows it in the list never ran                       *)
C19_Witness ==
    \E p \in Requests :
        /\ body[p].via \in {"tl", "api"}
        /\ body[p].toolCallList.present
        /\ Len(body[p].toolCallList.items) = 2
        /\ body[p].toolCallList.items[1].name = CheckName
        /\ body[p].toolCallList.items[2].name = BookName
        /\ pc[p] = "replied"
        /\ calls[p].list = 1 /\ calls[p].create = 0
        /\ reply[p].text = AvailableMsg
        /\ reply[p].toolCallId = 11


(* C20: whichever of the three shapes carries a known function name and    *)
(* its parameters (a call list of {id, function}, a list of {id, name,     *)
(* arguments}, or the single embedded {name, parameters}, the latter also  *)
(* next to an empty list), the handler accepts the delivery: it is not     *)
(* answered 400, the invocation read from it has that name and those       *)
(* parameters, and the operation that runs is the one named.               *)
C20_AllShapesAccepted ==
    \A p \in Requests :
        LET b == body[p]
            payload == Payload(b.toolCallList, b.toolCalls, b.functionCall)
        IN  (b.via # "none" /\ pc[p] # "recv") =>
               \A n \in {CheckName, BookName}, ps \in HookParams :
                  payload \in ShapesOf(n, ps)
                                \cup {Payload(List(<<>>), NoList, FunctionCall(n, ps))}
                  => /\ reply[p].status # 400
                     /\ Normalize(b).status = "ok"
                     /\ Normalize(b).name = n
                     /\ Normalize(b).parameters = ps
                     /\ calls[p] # InitCalls =>
                           args[p].op = (IF n = CheckName THEN "check" ELSE "book")

(* C21: a delivery whose function name is present but is neither           *)
(* check_calendar_availability nor book_calendar_meeting is answered 400   *)
(* with "Unknown function" and that name, whatever else the payload holds, *)
(* and makes no integration lookup and no provider call.                   *)
C21_UnknownFunctionRejected ==
    \A p \in Requests :
        LET inv == Normalize(body[p])
        IN  ( /\ body[p].via # "none"
              /\ inv.status = "ok"
              /\ inv.name \notin {CheckName, BookName} )
            => /\ calls[p] = InitCalls
               /\ pc[p] # "recv" =>
                     /\ reply[p].status = 400
                     /\ reply[p].kind = "error"
                     /\ reply[p].text = UnknownFunctionMsg(inv.name)

C23_TimezoneInvariant ==
    (parsed.phase = "done" /\ parsed.via \in {"wh", "tl"}) =>
        /\ \A tz \in Timezones :
              parseDateTimeOf(parsed.via, parsed.dateStr, parsed.timeStr, tz)
                 = parsed.result
        /\ (parsed.dateStr.sep = "-" /\ parsed.timeStr.marker = "") =>
              parsed.result.date =
                 DateUTC(Components(parsed.dateStr.a, parsed.dateStr.b,
                                    parsed.dateStr.c, parsed.timeStr.h,
                                    parsed.timeStr.m))

(* 2026-01-20 10:30 with the hint Asia/Tokyo resolved to 10:30 UTC *)
C23_Witness ==
    /\ parsed.phase = "done" /\ parsed.via = "wh"
    /\ parsed.timezone = "Asia/Tokyo"
    /\ parsed.dateStr = DateStr("-", 2026, 1, 20)
    /\ parsed.timeStr = TimeStr(10, 30, "")
    /\ ~parsed.result.thrown
    /\ parsed.result.date = HHMM(10, 30)

(* C24: in every variant, parseDateTime reads a date containing '/' as     *)
(* DD/MM/YYYY when its first number exceeds 12 and as MM/DD/YYYY           *)
(* otherwise, reads a date containing '-' as YYYY-MM-DD, and rejects a     *)
(* date containing neither with an invalid-date-format error.              *)
C24_DateFormats ==
    parsed.phase = "done" =>
        LET d == parsed.dateStr
            c == parsed.result.components
        IN  /\ d.sep = "/" =>
                  /\ ~parsed.result.thrown
                  /\ c.year = d.c
                  /\ c.month = (IF d.a > 12 THEN d.b ELSE d.a)
                  /\ c.day = (IF d.a > 12 THEN d.a ELSE d.b)
            /\ d.sep = "-" =>
                  /\ ~parsed.result.thrown
                  /\ c.year = d.a /\ c.month = d.b /\ c.day = d.c
            /\ d.sep = "none" => parsed.result.thrown

(* C25: parseDateTime of webhook-handler.js gives hour 0 for 12 AM, hour   *)
(* 12 for 12 PM, hour + 12 for a PM hour below 12, the hour unchanged for  *)
(* an AM hour below 12, and without a marker the HH of HH:MM unchanged;    *)
(* the minutes are always those written.                                   *)
C25_TwelveHourClock ==
    (parsed.phase = "done" /\ parsed.via = "wh" /\ ~parsed.result.thrown) =>
        LET t == parsed.timeStr
            c == parsed.result.components
        IN  /\ (t.marker = "am" /\ t.h = 12) => c.hours = 0
            /\ (t.marker = "pm" /\ t.h = 12) => c.hours = 12
            /\ (t.marker = "pm" /\ t.h < 12) => c.hours = t.h + 12
            /\ (t.marker = "am" /\ t.h < 12) => c.hours = t.h
            /\ t.marker = "" => c.hours = t.h
            /\ c.minutes = t.m

(* "12:00 am" on 2026-01-20 resolved to midnight *)
C25_Witness ==
    /\ parsed.phase = "done" /\ parsed.via = "wh"
    /\ parsed.dateStr = DateStr("-", 2026, 1, 20)
    /\ parsed.timeStr = TimeStr(12, 0, "am")
    /\ parsed.result.components.hours = 0
    /\ parsed.result.date = 0

(* C26: checkAvailability of calendar-service.js asks the provider for     *)
(* exactly the window from one hour before the proposed start to one hour  *)
(* after the proposed end, and the event bookMeeting creates starts and    *)
(* ends where the window it checked starts and ends.                       *)
C26_PaddedWindowCheckedEqualsBooked ==
    \A p \in Requests :
        args[p].impl = "svc" =>
            LET proposedStart == args[p].start
                proposedEnd == args[p].start + args[p].dur * MsPerMinute
            IN  /\ calls[p].list > 0 =>
                      /\ loc[p].timeMin = proposedStart - OneHour
                      /\ loc[p].timeMax = proposedEnd + OneHour
                /\ (args[p].op = "book" /\ out[p].success) =>
                      \E i \in 1..Len(calendar) :
                         /\ calendar[i].id = out[p].calendarEventId
                         /\ calendar[i].start = proposedStart
                         /\ calendar[i].end = proposedEnd

(* a 60-minute booking at 10:30 was checked over 09:30-12:30 and created   *)
(* as 10:30-11:30                                                          *)
C26_Witness ==
    \E p \in Requests :
        /\ args[p] = [impl |-> "svc", op |-> "book", start |-> HHMM(10, 30), dur |-> 60]
        /\ out[p].success
        /\ loc[p].timeMin = HHMM(9, 30) /\ loc[p].timeMax = HHMM(12, 30)
        /\ \E i \in 1..Len(calendar) :
              calendar[i].start = HHMM(10, 30) /\ calendar[i].end = HHMM(11, 30)

(* C27: a delivery that fails validation (no invocation found, no function *)
(* name, or a check without date or time, or a booking without date, time, *)
(* attendee name or e-mail) is answered with its validation or             *)
(* clarification text and makes no integration lookup, token exchange,     *)
(* list or create call; and whenever an external call is made, the date    *)
(* and time were parsed successfully before it.                            *)
C27_ValidationBeforeExternalCalls ==
    \A p \in Requests :
        LET b == body[p]
            inv == Normalize(b)
            ps == inv.parameters
            time == IF b.via = "wh" THEN ps.time ELSE ps.startTime
            named == IF b.via = "wh" THEN ps.lead ELSE ps.attendee
            incomplete == \/ ps.date.sep = "missing"
                          \/ ~time.given
                          \/ inv.name = BookName /\ ~named
            at == parseDateTimeOf(b.via, ps.date, time, ps.timezone)
        IN  b.via # "none" =>
               /\ (inv.status # "ok" \/ (inv.name \in {CheckName, BookName} /\ incomplete))
                    => /\ calls[p] = InitCalls
                       /\ pc[p] \in {"recv", "replied"}
                       /\ pc[p] = "replied" =>
                             reply[p].text \in
                                {NoToolCallsMsg, MissingNameMsg, ApologyMsg, UnableMsg,
                                 NeedDateTimeMsg, NeedBookingFieldsMsg}
               /\ calls[p] # InitCalls =>
                     /\ ~at.thrown /\ at.date # NaN
                     /\ args[p].start = at.date

(* a booking without attendee name and e-mail was asked for them and made  *)
(* no external call                                                        *)
C27_Witness ==
    \E p \in Requests :
        /\ body[p].via = "tl"
        /\ body[p].callMetadataUser # Undefined
        /\ Normalize(body[p]).name = BookName
        /\ Normalize(body[p]).parameters.date = DateStr("-", 2026, 1, 20)
        /\ ~Normalize(body[p]).parameters.attendee
        /\ pc[p] = "replied"
        /\ reply[p].text = NeedBookingFieldsMsg
        /\ calls[p] = InitCalls

(* C28: a calendar-service request does not retry: once one of its         *)
(* external calls has failed it issues no further external call, and it    *)
(* invokes create-event at most once.                                      *)
C28_NoRetryAfterFailure ==
    [][\A p \in Requests :
          args[p].impl = "svc" =>
             /\ calls[p].failed > 0 =>
                   /\ calls'[p].lookup = calls[p].lookup
                   /\ calls'[p].token = calls[p].token
                   /\ calls'[p].update = calls[p].update
                   /\ calls'[p].list = calls[p].list
                   /\ calls'[p].create = calls[p].create
             /\ calls'[p].create <= 1]_vars

(* C29: a single bookMeeting request of calendar-service.js, running       *)
(* alone, calls the token endpoint at most once, and the token it uses     *)
(* for create-event is the stored one.                                     *)
C29_OneExchangePerBooking ==
    \A p \in Requests :
        (args[p].impl = "svc" /\ args[p].op = "book") =>
            /\ calls[p].token <= 1
            /\ pc[p] = "create" => loc[p].accessToken = store.accessToken

(* C30: under concurrent first calls no caller of getMongoDb receives a    *)
(* database handle whose client has not finished connecting, and each      *)
(* implementation creates at most one client per process.                  *)
C30_OneConnectedClient ==
    /\ \A c \in Callers :
          mongo.caller[c].at = "returned" => ~mongo.caller[c].early
    /\ mongo.created <= 1

====
